---- MODULE Spec2Model ----
(***************************************************************************)
(* The Kaleidoscope front end of hajifkd/llvm-tutorial: the character      *)
(* source getBufChar, the lexer gettok, the recursive-descent parser and   *)
(* the driver MainLoop.  The repository holds two programs that share this *)
(* front end almost line by line: src/src/main.cpp (lexer and parser only) *)
(* and src/unnamed/part_000 (the same front end with code generation and   *)
(* a JIT behind it).  The variable ver says which of the two runs; the     *)
(* places where they differ are gettok's newline rule, the separator       *)
(* ParseIdentifierExpr compares with, and the name ParseTopLevelExpr gives *)
(* the anonymous function.                                                 *)
(*                                                                         *)
(* Characters are one-character strings; the byte 0xFF is the string       *)
(* "0xFF" and the int EOF is the string "EOF".  Strings of the program     *)
(* (Buf, IdentifierStr, the input) are sequences of characters.  Tokens    *)
(* are strings too: "tok_eof", "tok_def", "tok_extern", "tok_identifier",  *)
(* "tok_number", or the character itself.                                  *)
(***************************************************************************)
EXTENDS Integers, Sequences, FiniteSets, TLC

VARIABLES
  ver,            \* "main": src/src/main.cpp, "jit": src/unnamed/part_000
  charSigned,     \* whether the build's plain char is signed (implementation-defined)
  test,           \* how the input was built: [fam, ops, items, n, name, txt] (history, never written)
  input,          \* what standard input held at the start (history, never written)
  cin,            \* the characters std::cin has not delivered yet
  cinState,       \* "good", "eof" (eofbit) or "fail" (failbit): std::cin's state
  Buf,            \* getBufChar's static Buf
  Index,          \* getBufChar's static Index
  LastChar,       \* gettok's static LastChar
  IdentifierStr,  \* the lexer's IdentifierStr
  NumVal,         \* the lexer's NumVal
  CurTok,         \* the parser's CurTok
  BinopPrecedence,\* the parser's precedence table
  pc,             \* "main", "MainLoop", "returned" (main has returned), "gettok" (inside a gettok
                  \* call that never returns), "crashed", or "lexer" (the lexer run alone)
  handler,        \* the step taken last
  ret,            \* what the parse function called by that step returned
  errs,           \* the messages the parser printed with LogError during that step, each with
                  \* the token it was on
  ntok,           \* the getNextToken calls that returned during that step
  iter,           \* MainLoop iterations so far, counted up to IterCap
  toks            \* the lexer run alone: the tokens getNextToken has returned, up to MaxToks

vars == <<ver, charSigned, test, input, toks, cin, cinState, Buf, Index, LastChar, IdentifierStr,
          NumVal, CurTok, BinopPrecedence, pc, handler, ret, errs, ntok, iter>>

(***************************************************************************)
(* Bounds of the model.                                                    *)
(***************************************************************************)
\* Buf grows by one newline at every getline that fails; the lexer skips a run of
\* newlines whatever its length, so the run kept at the end of Buf stops growing here.
MaxPad == 2
\* iter stops counting here.
IterCap == 3
\* the operators of an expression chain
MaxOps == 3
\* the arguments of a call
MaxArgs == 3
\* the tokens between the parentheses of a prototype
MaxParams == 3
\* the characters of an input of the lexer run alone, and the tokens read from it
MaxLexLen == 4
MaxToks == 6

(***************************************************************************)
(* Characters: <ctype.h> in the "C" locale.                                *)
(***************************************************************************)
Lower == {"a","b","c","d","e","f","g","h","i","j","k","l","m",
          "n","o","p","q","r","s","t","u","v","w","x","y","z"}
Upper == {"A","B","C","D","E","F","G","H","I","J","K","L","M",
          "N","O","P","Q","R","S","T","U","V","W","X","Y","Z"}
Digit == {"0","1","2","3","4","5","6","7","8","9"}
Space == {" ", "\t", "\n", "\r"}

isspace(c) == c \in Space
\* a variant of isalpha that takes the underscore for a letter
isalphaOrUnderscore(c) == c \in Lower \cup Upper \cup {"_"}
isalpha(c) == c \in Lower \cup Upper
isdigit(c) == c \in Digit
isalnum(c) == isalpha(c) \/ isdigit(c)
\* EOF is -1 and the tokens tok_* are negative; an unsigned 0xFF is 255
isascii(c) == c \notin {"EOF", "0xFF", "tok_eof", "tok_def", "tok_extern",
                        "tok_identifier", "tok_number"}

DigitVal(c) == CASE c = "0" -> 0 [] c = "1" -> 1 [] c = "2" -> 2 [] c = "3" -> 3
                 [] c = "4" -> 4 [] c = "5" -> 5 [] c = "6" -> 6 [] c = "7" -> 7
                 [] c = "8" -> 8 [] c = "9" -> 9

(***************************************************************************)
(* The machine state the lexer and the parser work on, as one record, so   *)
(* that the functions below can be written as operators from state to      *)
(* state.  tok is gettok's return value; hang says that a gettok call has  *)
(* been entered that never returns, and hungTok keeps CurTok as it was.    *)
(***************************************************************************)
NoTok == "<none>"

Cur == [cin |-> cin, cinState |-> cinState, Buf |-> Buf, Index |-> Index,
        LastChar |-> LastChar, IdentifierStr |-> IdentifierStr, NumVal |-> NumVal,
        CurTok |-> CurTok, BinopPrecedence |-> BinopPrecedence,
        tok |-> NoTok, errs |-> <<>>, ntok |-> 0,
        nfail |-> 0, hang |-> FALSE, hungTok |-> NoTok]

\* the machine state at program start, standard input holding text: the statics as
\* they are initialised
Start(text) ==
  [cin |-> text, cinState |-> "good", Buf |-> <<>>, Index |-> 0,
   LastChar |-> " ", IdentifierStr |-> <<>>, NumVal |-> [int |-> 0, frac |-> <<>>],
   CurTok |-> "NUL", BinopPrecedence |-> <<>>,
   tok |-> NoTok, errs |-> <<>>, ntok |-> 0,
   nfail |-> 0, hang |-> FALSE, hungTok |-> NoTok]

(***************************************************************************)
(* A function of the program is an operator from the machine state to the  *)
(* machine state; where its code goes on with the result of a call, the    *)
(* rest of its body is an operator of its own that takes that result.      *)
(* ByValue(Op, v) is Op(v) with v worked out once, before Op uses it, as   *)
(* the program does with the value a call returns.                         *)
(***************************************************************************)
ByValue(Op(_), v) == CHOOSE r \in {Op(x) : x \in {v}} : TRUE

(***************************************************************************)
(* The character source.                                                   *)
(***************************************************************************)
RECURSIVE FirstNewline(_, _)
FirstNewline(str, i) ==
  IF i > Len(str) THEN 0
  ELSE IF str[i] = "\n" THEN i
  ELSE FirstNewline(str, i + 1)

\* std::getline(std::cin, Buf), n being the place of the next newline of the stream
\* (0: none): with the stream not good the sentry fails and Buf is left as it is;
\* otherwise Buf is erased and filled up to the newline, which is extracted and
\* dropped, or up to the end of the stream
getlineUpTo(s, n) ==
  IF s.cinState # "good" THEN [s EXCEPT !.cinState = "fail"]
  ELSE IF n > 0
  THEN [s EXCEPT !.Buf = SubSeq(s.cin, 1, n - 1),
                 !.cin = SubSeq(s.cin, n + 1, Len(s.cin))]
  ELSE IF Len(s.cin) > 0
  THEN [s EXCEPT !.Buf = s.cin, !.cin = <<>>, !.cinState = "eof"]
  ELSE [s EXCEPT !.Buf = <<>>, !.cinState = "fail"]

getline(s) == getlineUpTo(s, FirstNewline(s.cin, 1))

RECURSIVE TrailingNewlines(_)
TrailingNewlines(str) ==
  IF Len(str) = 0 \/ str[Len(str)] # "\n" THEN 0
  ELSE 1 + TrailingNewlines(SubSeq(str, 1, Len(str) - 1))

\* Buf += '\n'
PadNewline(str) ==
  IF TrailingNewlines(str) >= MaxPad THEN str ELSE Append(str, "\n")

\* the conversion of the char getBufChar returns to the int LastChar
CharToInt(c) == IF c = "0xFF" /\ charSigned THEN "EOF" ELSE c

NeedsRefill(s) == Len(s.Buf) <= s.Index

\* Buf += '\n'; Index = 0; after the getline that led to g; failed: the stream was
\* not good before it
Refilled(g, failed) ==
  [g EXCEPT !.Buf = PadNewline(g.Buf), !.Index = 0,
            !.nfail = IF failed THEN @ + 1 ELSE @]

\* return Buf.c_str()[Index++]; the character returned is put in LastChar (every call
\* of the program assigns it there)
ReturnChar(r) ==
  [r EXCEPT !.LastChar = CharToInt(r.Buf[r.Index + 1]), !.Index = r.Index + 1]

getBufChar(s) ==
  ByValue(ReturnChar,
          IF NeedsRefill(s)
          THEN ByValue(LAMBDA g : Refilled(g, s.cinState # "good"), getline(s))
          ELSE s)

(***************************************************************************)
(* The lexer.                                                              *)
(***************************************************************************)
\* while (isspace(LastChar)) LastChar = getBufChar();
\* getline refills Buf only here (every other read stops at the newline that ends
\* Buf).  When the stream has failed, a refill leaves Buf as it was but for one
\* more newline: a second failed refill within one gettok call means that a whole
\* pass over Buf has produced no token, and no later pass will.
RECURSIVE SkipSpace(_)
SkipSpace(s) ==
  IF ~ isspace(s.LastChar) THEN s
  ELSE IF NeedsRefill(s) /\ s.cinState # "good" /\ s.nfail >= 1
  THEN [s EXCEPT !.hang = TRUE]
  ELSE ByValue(SkipSpace, getBufChar(s))

\* while (isalnum((LastChar = getBufChar()))) IdentifierStr += LastChar;
\* s is the state after the call of getBufChar
RECURSIVE ReadIdentifier(_)
ReadIdentifier(s) ==
  IF isalnum(s.LastChar)
  THEN ByValue(ReadIdentifier,
               getBufChar([s EXCEPT !.IdentifierStr = Append(@, s.LastChar)]))
  ELSE s

\* the three returns of the identifier branch
Keyword(s) ==
  [s EXCEPT !.tok = IF s.IdentifierStr = <<"d", "e", "f">> THEN "tok_def"
                    ELSE IF s.IdentifierStr = <<"e", "x", "t", "e", "r", "n">>
                    THEN "tok_extern"
                    ELSE "tok_identifier"]

\* strtod on a string of digits and points: the longest prefix that is a decimal
\* number, as the pair of its integer part and its fraction digits without the
\* trailing zeros; 0 when no prefix is a number
RECURSIVE DigitsPrefix(_, _)
DigitsPrefix(str, i) ==
  IF i > Len(str) \/ ~ isdigit(str[i]) THEN <<>>
  ELSE <<str[i]>> \o DigitsPrefix(str, i + 1)

RECURSIVE IntValue(_)
IntValue(ds) ==
  IF Len(ds) = 0 THEN 0
  ELSE 10 * IntValue(SubSeq(ds, 1, Len(ds) - 1)) + DigitVal(ds[Len(ds)])

RECURSIVE StripZeros(_)
StripZeros(ds) ==
  IF Len(ds) > 0 /\ ds[Len(ds)] = "0" THEN StripZeros(SubSeq(ds, 1, Len(ds) - 1))
  ELSE ds

Decimal(str, ip) ==
  [int  |-> IntValue(ip),
   frac |-> StripZeros(IF Len(ip) < Len(str) /\ str[Len(ip) + 1] = "."
                       THEN DigitsPrefix(str, Len(ip) + 2) ELSE <<>>)]

strtod(str) == Decimal(str, DigitsPrefix(str, 1))

\* do { NumStr += LastChar; LastChar = getBufChar(); } while (isdigit(LastChar) || LastChar == '.');
\* NumVal = strtod(NumStr.c_str(), 0); return tok_number;
\* s is the state after the call of getBufChar
RECURSIVE ReadNumber(_, _)
ReadNumber(s, NumStr) ==
  IF isdigit(s.LastChar) \/ s.LastChar = "."
  THEN ByValue(LAMBDA x : ReadNumber(x, Append(NumStr, s.LastChar)), getBufChar(s))
  ELSE [s EXCEPT !.NumVal = strtod(NumStr), !.tok = "tok_number"]

\* do LastChar = getBufChar(); while (LastChar != EOF && LastChar != '\n' && LastChar != '\r');
\* s is the state after the call of getBufChar
RECURSIVE SkipComment(_)
SkipComment(s) ==
  IF s.LastChar # "EOF" /\ s.LastChar # "\n" /\ s.LastChar # "\r"
  THEN ByValue(SkipComment, getBufChar(s))
  ELSE s

\* if (LastChar == EOF) return tok_eof;
\* int ThisChar = LastChar; LastChar = getBufChar(); return ThisChar;
EofOrChar(s) ==
  IF s.LastChar = "EOF" THEN [s EXCEPT !.tok = "tok_eof"]
  ELSE [getBufChar(s) EXCEPT !.tok = s.LastChar]

RECURSIVE gettok(_)

\* if (LastChar != EOF) return gettok(); after the comment loop
AfterComment(s) ==
  IF s.LastChar # "EOF" THEN gettok(s) ELSE EofOrChar(s)

\* gettok after its whitespace loop
Scan(s) ==
  IF s.hang THEN s
  ELSE IF isalpha(s.LastChar)
  THEN ByValue(Keyword,
               ByValue(ReadIdentifier,
                       getBufChar([s EXCEPT !.IdentifierStr = <<s.LastChar>>])))
  ELSE IF isdigit(s.LastChar) \/ s.LastChar = "."
  THEN ByValue(LAMBDA x : ReadNumber(x, <<s.LastChar>>), getBufChar(s))
  ELSE IF s.LastChar = "#"
  THEN ByValue(AfterComment, ByValue(SkipComment, getBufChar(s)))
  ELSE EofOrChar(s)

\* gettok from its whitespace loop on: the whole of part_000's gettok
gettokScan(s) == ByValue(Scan, SkipSpace(s))

\* main.cpp's gettok starts by turning a newline left in LastChar into a ';'
gettok(s) ==
  IF ver = "main" /\ s.LastChar = "\n"
  THEN [s EXCEPT !.LastChar = " ", !.tok = ";"]
  ELSE gettokScan(s)

(***************************************************************************)
(* The parser.  A parse function is an operator from the machine state to  *)
(* [s: the state after it, r: the node it returns], nullptr being NULL.    *)
(***************************************************************************)
NULL == [kind |-> "nullptr"]

NumberExprAST(Val)            == [kind |-> "Number", Val |-> Val]
VariableExprAST(Name)         == [kind |-> "Variable", Name |-> Name]
BinaryExprAST(Op, LHS, RHS)   == [kind |-> "Binary", Op |-> Op, LHS |-> LHS, RHS |-> RHS]
CallExprAST(Callee, Args)     == [kind |-> "Call", Callee |-> Callee, Args |-> Args]
PrototypeAST(Name, Args)      == [kind |-> "Prototype", Name |-> Name, Args |-> Args]
FunctionAST(Proto, Body)      == [kind |-> "Function", Proto |-> Proto, Body |-> Body]

\* CurTok = (what gettok returned), t being the state gettok left and old the CurTok
\* before.  A gettok call that never returns leaves the rest of the step undone:
\* from then on the state is frozen and CurTok reads as no token of the grammar
SetCurTok(t, old) ==
  IF t.hang THEN [t EXCEPT !.hungTok = old, !.CurTok = NoTok]
  ELSE [t EXCEPT !.CurTok = t.tok, !.ntok = @ + 1]

getNextToken(s) ==
  IF s.hang THEN s
  ELSE ByValue(LAMBDA t : SetCurTok(t, s.CurTok),
               gettok([s EXCEPT !.nfail = 0, !.tok = NoTok]))

\* fprintf(stderr, "LogError: %s\n", Str); return nullptr;  An entry of errs is the
\* message with the token that was current when it was printed
LogError(s, Str) ==
  [s |-> IF s.hang THEN s
         ELSE [s EXCEPT !.errs = Append(@, [msg |-> Str, at |-> s.CurTok])],
   r |-> NULL]

LogErrorP(s, Str) == LogError(s, Str)

ParseNumberExpr(s) == [s |-> getNextToken(s), r |-> NumberExprAST(s.NumVal)]

\* a variant of Positive that returns the entry of the table as it is
EntryAsItIs(TokPrec) == TokPrec
\* if (TokPrec <= 0) return -1; return TokPrec;
Positive(TokPrec) == IF TokPrec <= 0 THEN -1 ELSE TokPrec

\* BinopPrecedence[CurTok]: std::map's operator[] puts a key that is absent into
\* the table, with the value 0
Subscript(s) ==
  IF s.CurTok \in DOMAIN s.BinopPrecedence THEN s
  ELSE [s EXCEPT !.BinopPrecedence = (s.CurTok :> 0) @@ @]

\* r is the precedence returned
GetTokPrecedence(s) ==
  IF s.hang \/ ~ isascii(s.CurTok) THEN [s |-> s, r |-> -1]
  ELSE ByValue(LAMBDA x : [s |-> x, r |-> Positive(x.BinopPrecedence[x.CurTok])],
               Subscript(s))

\* a variant of ArgSeparator: the full stop in both programs
ArgSeparatorDot == "."
\* the character ParseIdentifierExpr compares with after an argument
ArgSeparator == IF ver = "main" THEN "." ELSE ","

RECURSIVE ParseExpression(_), ParsePrimary(_), ParseArgs(_, _), ParseBinOpRHS(_, _, _)

\* a variant of ParenClose that leaves the ')' unread
ParenCloseUnread(V) ==
  IF V.r = NULL THEN V
  ELSE IF V.s.CurTok # ")" THEN LogError(V.s, "expected ')'")
  ELSE [s |-> V.s, r |-> V.r]

\* ParseParenExpr after auto V = ParseExpression();
ParenClose(V) ==
  IF V.r = NULL THEN V
  ELSE IF V.s.CurTok # ")" THEN LogError(V.s, "expected ')'")
  ELSE [s |-> getNextToken(V.s), r |-> V.r]

ParseParenExpr(s) == ByValue(ParenClose, ByValue(ParseExpression, getNextToken(s)))

\* the vector Args of ParseIdentifierExpr
ArgVector(Args) == [kind |-> "Args", v |-> Args]

\* the body of the while (true) loop after auto Arg = ParseExpression()
NextArg(Arg, Args) ==
  IF Arg.r = NULL THEN Arg
  ELSE IF Arg.s.CurTok = ")" THEN [s |-> Arg.s, r |-> ArgVector(Append(Args, Arg.r))]
  ELSE IF Arg.s.CurTok # ArgSeparator
  THEN LogError(Arg.s, "expected ')' or ',' in argument list")
  ELSE ByValue(LAMBDA x : ParseArgs(x, Append(Args, Arg.r)), getNextToken(Arg.s))

\* the while (true) loop of ParseIdentifierExpr; r is the argument vector, or NULL
\* when the function returns nullptr from within the loop
ParseArgs(s, Args) == ByValue(LAMBDA Arg : NextArg(Arg, Args), ParseExpression(s))

\* getNextToken(); return std::make_unique<CallExprAST>(IdName, std::move(Args));
CallClose(A, IdName) ==
  IF A.r = NULL THEN A
  ELSE [s |-> getNextToken(A.s), r |-> CallExprAST(IdName, A.r.v)]

\* ParseIdentifierExpr after the getNextToken() that consumes '(': the if around
\* the loop
CallArgs(s) ==
  IF s.CurTok # ")" THEN ParseArgs(s, <<>>) ELSE [s |-> s, r |-> ArgVector(<<>>)]

\* ParseIdentifierExpr after its first getNextToken()
VariableOrCall(s, IdName) ==
  IF s.CurTok # "(" THEN [s |-> s, r |-> VariableExprAST(IdName)]
  ELSE ByValue(LAMBDA A : CallClose(A, IdName), ByValue(CallArgs, getNextToken(s)))

ParseIdentifierExpr(s) ==
  ByValue(LAMBDA x : VariableOrCall(x, s.IdentifierStr), getNextToken(s))

ParsePrimary(s) ==
  CASE s.CurTok = "tok_identifier" -> ParseIdentifierExpr(s)
    [] s.CurTok = "tok_number"     -> ParseNumberExpr(s)
    [] s.CurTok = "("              -> ParseParenExpr(s)
    [] OTHER                       -> LogError(s, "unknown token")

\* ParseExpression after auto LHS = ParsePrimary();
ExpressionFrom(LHS) ==
  IF LHS.r = NULL THEN LHS ELSE ParseBinOpRHS(0, LHS.r, LHS.s)

ParseExpression(s) == ByValue(ExpressionFrom, ParsePrimary(s))

\* the precedence ParseBinOpRHS hands to its recursive call
RecursionPrec(TokPrec) == TokPrec

\* LHS = std::make_unique<BinaryExprAST>(BinOp, LHS, RHS), and round the loop again
Combine(ExprPrec, LHS, BinOp, RHS) ==
  IF RHS.r = NULL THEN RHS
  ELSE ParseBinOpRHS(ExprPrec, BinaryExprAST(BinOp, LHS, RHS.r), RHS.s)

\* the loop body after int NextPrec = GetTokPrecedence();
Associate(ExprPrec, LHS, TokPrec, BinOp, RHS, NextPrec, s) ==
  ByValue(LAMBDA R : Combine(ExprPrec, LHS, BinOp, R),
          IF TokPrec < NextPrec
          THEN ParseBinOpRHS(RecursionPrec(TokPrec), RHS, s)
          ELSE [s |-> s, r |-> RHS])

\* the loop body after auto RHS = ParsePrimary();
WithRHS(ExprPrec, LHS, TokPrec, BinOp, RHS) ==
  IF RHS.r = NULL THEN RHS
  ELSE ByValue(LAMBDA N : Associate(ExprPrec, LHS, TokPrec, BinOp, RHS.r, N.r, N.s),
               GetTokPrecedence(RHS.s))

\* the loop body after int TokPrec = GetTokPrecedence();
LoopBody(ExprPrec, LHS, TokPrec, s) ==
  IF TokPrec < ExprPrec THEN [s |-> s, r |-> LHS]
  ELSE ByValue(LAMBDA RHS : WithRHS(ExprPrec, LHS, TokPrec, s.CurTok, RHS),
               ByValue(ParsePrimary, getNextToken(s)))

ParseBinOpRHS(ExprPrec, LHS, s) ==
  ByValue(LAMBDA P : LoopBody(ExprPrec, LHS, P.r, P.s), GetTokPrecedence(s))

\* while (getNextToken() == tok_identifier) ArgNames.push_back(IdentifierStr);
\* s is the state after the call of getNextToken
RECURSIVE ReadArgNames(_, _)
ReadArgNames(s, ArgNames) ==
  IF s.CurTok = "tok_identifier"
  THEN ByValue(LAMBDA x : ReadArgNames(x, Append(ArgNames, s.IdentifierStr)),
               getNextToken(s))
  ELSE [s |-> s, ArgNames |-> ArgNames]

\* a variant of PrototypeClose that takes any token for the ')'
PrototypeCloseAnyToken(A, FnName) ==
  [s |-> getNextToken(A.s), r |-> PrototypeAST(FnName, A.ArgNames)]

\* ParsePrototype after the loop over the argument names
PrototypeClose(A, FnName) ==
  IF A.s.CurTok # ")" THEN LogErrorP(A.s, "expected ')'")
  ELSE [s |-> getNextToken(A.s), r |-> PrototypeAST(FnName, A.ArgNames)]

\* ParsePrototype after the getNextToken() that consumes the function name
PrototypeArgs(s, FnName) ==
  IF s.CurTok # "(" THEN LogErrorP(s, "expected '('")
  ELSE ByValue(LAMBDA A : PrototypeClose(A, FnName),
               ByValue(LAMBDA x : ReadArgNames(x, <<>>), getNextToken(s)))

ParsePrototype(s) ==
  IF s.CurTok # "tok_identifier" THEN LogErrorP(s, "expected function name")
  ELSE ByValue(LAMBDA x : PrototypeArgs(x, s.IdentifierStr), getNextToken(s))

\* a variant of DefinitionOf that builds the FunctionAST whatever the body is
DefinitionPartial(Proto, E) == [s |-> E.s, r |-> FunctionAST(Proto, E.r)]
\* ParseDefinition after auto E = ParseExpression()
DefinitionOf(Proto, E) ==
  IF E.r # NULL THEN [s |-> E.s, r |-> FunctionAST(Proto, E.r)] ELSE E

\* ParseDefinition after auto Proto = ParsePrototype();
DefinitionBody(Proto) ==
  IF Proto.r = NULL THEN Proto
  ELSE ByValue(LAMBDA E : DefinitionOf(Proto.r, E), ParseExpression(Proto.s))

ParseDefinition(s) == ByValue(DefinitionBody, ByValue(ParsePrototype, getNextToken(s)))

ParseExtern(s) == ByValue(ParsePrototype, getNextToken(s))

\* the name of the anonymous function
AnonName == IF ver = "main" THEN <<>>
            ELSE <<"_", "_", "a", "n", "o", "n", "_", "e", "x", "p", "r">>

\* ParseTopLevelExpr after auto E = ParseExpression()
AnonFunction(E) ==
  IF E.r # NULL
  THEN [s |-> E.s, r |-> FunctionAST(PrototypeAST(AnonName, <<>>), E.r)]
  ELSE E

ParseTopLevelExpr(s) == ByValue(AnonFunction, ParseExpression(s))

(***************************************************************************)
(* The driver.                                                             *)
(***************************************************************************)
\* what main installs
InstalledPrecedence ==
  [c \in {"<", "+", "-", "*"} |->
     CASE c = "<" -> 10 [] c = "+" -> 20 [] c = "-" -> 20 [] c = "*" -> 40]

\* ret while no parse function has returned
Pending == [kind |-> "pending"]

\* the if of the three handlers, P being what the parse function returned: nothing
\* more on a node (what part_000 does with it, code generation and the JIT, reads
\* no token; what it prints is not kept in errs), one getNextToken on nullptr
Handled(P) == [s |-> IF P.r # NULL THEN P.s ELSE getNextToken(P.s), r |-> P.r]

HandleDefinitionOp(s)         == ByValue(Handled, ParseDefinition(s))
HandleExternOp(s)             == ByValue(Handled, ParseExtern(s))
HandleTopLevelExpressionOp(s) == ByValue(Handled, ParseTopLevelExpr(s))

\* the step ran the lexer and the parser to the machine state s and the parse
\* function returned r; in a step that entered a gettok call that never returns,
\* nothing after that call has happened
Commit(s, r, name, to) ==
  /\ cin' = s.cin
  /\ cinState' = s.cinState
  /\ Buf' = s.Buf
  /\ Index' = s.Index
  /\ LastChar' = s.LastChar
  /\ IdentifierStr' = s.IdentifierStr
  /\ NumVal' = s.NumVal
  /\ CurTok' = IF s.hang THEN s.hungTok ELSE s.CurTok
  /\ BinopPrecedence' = s.BinopPrecedence
  /\ pc' = IF s.hang THEN "gettok" ELSE to
  /\ handler' = name
  /\ ret' = IF s.hang THEN Pending ELSE r
  /\ errs' = s.errs
  /\ ntok' = s.ntok
  /\ UNCHANGED <<ver, charSigned, test, input>>

CommitHandled(H, name) == Commit(H.s, H.r, name, "MainLoop")

Count == iter' = IF iter < IterCap THEN iter + 1 ELSE iter

\* main: the table, the first token, then MainLoop
Main ==
  /\ pc = "main"
  /\ \E s \in {getNextToken([Cur EXCEPT !.BinopPrecedence = InstalledPrecedence])} :
       Commit(s, Pending, "main", "MainLoop")
  /\ UNCHANGED <<iter, toks>>

MainLoopEof ==
  /\ pc = "MainLoop"
  /\ CurTok = "tok_eof"
  /\ pc' = "returned"
  /\ handler' = "return"
  /\ ret' = Pending
  /\ errs' = <<>>
  /\ ntok' = 0
  /\ Count
  /\ UNCHANGED <<ver, charSigned, test, input, toks, cin, cinState, Buf, Index, LastChar,
                 IdentifierStr, NumVal, CurTok, BinopPrecedence>>

MainLoopSemicolon ==
  /\ pc = "MainLoop"
  /\ CurTok = ";"
  /\ \E s \in {getNextToken(Cur)} : Commit(s, Pending, ";", "MainLoop")
  /\ Count
  /\ UNCHANGED toks

HandleDefinition ==
  /\ pc = "MainLoop"
  /\ CurTok = "tok_def"
  /\ \E H \in {HandleDefinitionOp(Cur)} : CommitHandled(H, "HandleDefinition")
  /\ Count
  /\ UNCHANGED toks

HandleExtern ==
  /\ pc = "MainLoop"
  /\ CurTok = "tok_extern"
  /\ \E H \in {HandleExternOp(Cur)} : CommitHandled(H, "HandleExtern")
  /\ Count
  /\ UNCHANGED toks

HandleTopLevelExpression ==
  /\ pc = "MainLoop"
  /\ CurTok \notin {"tok_eof", ";", "tok_def", "tok_extern"}
  /\ \E H \in {HandleTopLevelExpressionOp(Cur)} : CommitHandled(H, "HandleTopLevelExpression")
  /\ Count
  /\ UNCHANGED toks

\* the character source after one more call of getBufChar, everything else as it was
Reread(s) ==
  /\ cin' = s.cin
  /\ cinState' = s.cinState
  /\ Buf' = s.Buf
  /\ Index' = s.Index
  /\ LastChar' = s.LastChar
  /\ UNCHANGED <<ver, charSigned, test, input, toks, IdentifierStr, NumVal, CurTok,
                 BinopPrecedence, pc, handler, ret, errs, ntok, iter>>

\* inside the gettok call that never returns: std::cin has failed and Buf holds only
\* whitespace and comments, so the loops of gettok that are open read Buf, refilled
\* with the same text, character by character without end
GettokLoop ==
  /\ pc = "gettok"
  /\ \E s \in {getBufChar(Cur)} : Reread(s)

Contains(str, c) == \E i \in 1..Len(str) : str[i] = c

\* in part_000 every comment passed over is one more gettok frame (return gettok();
\* after a comment that ends with a newline): where the build keeps the frame, the
\* stack runs out
StackExhausted ==
  /\ pc = "gettok"
  /\ ver = "jit"
  /\ Contains(Buf, "#")
  /\ pc' = "crashed"
  /\ UNCHANGED <<ver, charSigned, test, input, toks, cin, cinState, Buf, Index, LastChar,
                 IdentifierStr, NumVal, CurTok, BinopPrecedence, handler, ret, errs, ntok,
                 iter>>

Next ==
  \/ Main
  \/ MainLoopEof
  \/ MainLoopSemicolon
  \/ HandleDefinition
  \/ HandleExtern
  \/ HandleTopLevelExpression
  \/ GettokLoop
  \/ StackExhausted

(***************************************************************************)
(* The lexer run alone: getNextToken called again and again, the tokens    *)
(* kept in toks with the text or the value each carries.  first says that  *)
(* the token was read before std::cin failed, that is from the input       *)
(* itself and not from a line getBufChar serves again.                     *)
(***************************************************************************)
TokenOf(s) ==
  [tok   |-> s.CurTok,
   str   |-> IF s.CurTok \in {"tok_identifier", "tok_def", "tok_extern"}
             THEN s.IdentifierStr ELSE <<>>,
   val   |-> IF s.CurTok = "tok_number" THEN s.NumVal ELSE [int |-> 0, frac |-> <<>>],
   first |-> s.cinState # "fail"]

LexCommit(s) ==
  /\ Commit(s, Pending, "getNextToken", IF s.CurTok = "tok_eof" THEN "returned" ELSE "lexer")
  /\ toks' = IF s.hang THEN toks ELSE Append(toks, TokenOf(s))

LexStep ==
  /\ pc = "lexer"
  /\ Len(toks) < MaxToks
  /\ \E s \in {getNextToken(Cur)} : LexCommit(s)
  /\ UNCHANGED iter

NextLex ==
  \/ LexStep
  \/ GettokLoop
  \/ StackExhausted

(***************************************************************************)
(* The inputs.  A test says how an input is put together, so that a claim  *)
(* can speak of the parts (the operators of a chain, the arguments of a    *)
(* call); TextOf is the text standard input holds for it.                  *)
(***************************************************************************)
Seqs(S, n) == UNION {[1..k -> S] : k \in 0..n}

RECURSIVE Cat(_)
Cat(ss) == IF Len(ss) = 0 THEN <<>> ELSE ss[1] \o Cat(Tail(ss))

RECURSIVE Join(_, _)
Join(ss, sep) ==
  IF Len(ss) = 0 THEN <<>>
  ELSE IF Len(ss) = 1 THEN ss[1]
  ELSE ss[1] \o sep \o Join(Tail(ss), sep)

Repeat(c, n) == [i \in 1..n |-> c]

T(fam, ops, items, n, name, txt) ==
  [fam |-> fam, ops |-> ops, items |-> items, n |-> n, name |-> name, txt |-> txt]

Ops == {"<", "+", "-", "*"}
\* the i-th primary of a chain: a one-letter variable or a one-digit number
PrimChars == <<"a", "2", "c", "4", "e", "6", "g", "8", "i">>
ChainText(ops) ==
  <<PrimChars[1]>> \o Cat([i \in 1..Len(ops) |-> <<ops[i], PrimChars[i + 1]>>])

ArgItems == {<<"1">>, <<"a">>, <<"b", "+", "2">>}
ParamItems == {<<"a">>, <<"b">>, <<",">>, <<"1">>}
FnNames == {<<"f", "o", "o">>, <<"s", "i", "n">>}
Def == <<"d", "e", "f">>
Extern == <<"e", "x", "t", "e", "r", "n">>
LexAlphabet == {"a", "1", "+", ";", " ", "\n", "#", "0xFF"}

\* what fails as a top-level construct on its last token, which the handler discards
Junk == { <<")">>, <<",">>, Def \o <<" ", ")">>, Extern \o <<" ", "1">>,
          Def \o <<" ", "f", " ", ";">>, Def \o <<" ", "f", "(", "a", " ", ",">>,
          <<"f", "(", "1", " ", "2">>, <<"(", "1", " ", ";">> }
\* constructs that stand on their own
WellFormed == { <<"1", "+", "2", ";">>, <<"a", "*", "(", "b", "-", "1", ")", ";">>,
                <<"f", "(", "a", ")", ";">>, <<"f", "(", "1", ",", "a", ")", ";">>,
                Def \o <<" ", "g", "(", "a", " ", "b", ")", " ", "a", "<", "b", ";">>,
                Extern \o <<" ", "s", "i", "n", "(", "x", ")", ";">> }

\* the examples of the specification, and inputs that end the session
Examples ==
  { Def \o <<" ", "f", "o", "o", "(", "a", " ", "b", ")", " ", "a", "+", "b", ";">>,
    Def \o <<" ", "f", "o", "o", "(", "a", ",", " ", "b", ")", " ", "a", "+", "b", ";">>,
    Extern \o <<" ", "s", "i", "n", "(", "x", ")", ";">>,
    Def \o <<" ", "f", "o", "o", "(">>,
    Def \o <<" ", "f", "o", "o", "(", "\n">>,
    <<"1", "+", "2", ";", "0xFF">>,
    <<"1", "+", "2", "\n", "1", "0xFF", "\n">>,
    <<"1", "+", "2", "\n">>,
    <<"1", "+", "2">>,
    <<"#", " ", "c", "\n", "1", "+", "1", ";">>,
    <<"#", " ", "c">>,
    <<")", "\n">>,
    <<>> }

\* the parenthesised examples of the specification
ParenExamples ==
  { <<"(", "1", "+", "2", ")", "*", "3", ";">>,
    <<"(", "(", "1", "+", "2", ")", ")", "*", "3", ";">> }

\* expressions with a token that is no operator of the table where one could stand
OperatorTexts ==
  { <<"a", "/", "b", ";">>, <<"a", "=", "b", ";">>, <<"a", ">", "b", ";">>,
    <<"a", " ", "b", ";">>, <<"a", " ", "2", ";">>, <<"a", ".", "5", ";">>,
    <<"a", "0xFF", "b", ";">>, <<"a", " ">> \o Def \o <<" ", "b", ";">>,
    <<"a", " ">> \o Extern \o <<" ", "b", ";">>, <<"a", ")", "b", ";">>,
    <<"a", ",", "b", ";">>, <<"a", "+", "b", "/", "c", ";">>,
    <<"a", "+", "b", "*", "c", "/", "d", ";">>,
    <<"a", "+", "b", "*", "c", "0xFF", "d", ";">>,
    <<"a", "*", "b", "=", "c", "+", "d", ";">>,
    <<"f", "(", "a", "/", "b", ")", ";">>, <<"(", "a", "+", "b", "/", "c", ")", ";">> }

\* constructs with a syntax error inside a nested parse function
BrokenTexts ==
  { <<"1", "+", ")", ";">>, <<"1", "+", "2", "*", ")", ";">>, <<"a", "<", ";">>,
    <<"(", "1", "+", ")", ";">>, <<"(", "(", "a", ")", ";">>,
    <<"f", "(", "(", "1", "+", ")", ",", "2", ")", ";">>, <<"f", "(", "a", " ", "b", ")", ";">>,
    <<"1", "+", "f", "(", ";">>, <<"1", "*", "(", "2", ";">>,
    Def \o <<" ", "f", "(", "a", ")", " ", ")", ";">>,
    Def \o <<" ", "f", "(", "a", ")", " ", "a", "+", ";">>,
    Def \o <<" ", "f", "(", "a", ")", " ", "(", "a", ";">>,
    Def \o <<" ", "f", "(", "a", ")", " ", "a", "+", ")", " ", "1", ";">>,
    Def \o <<" ", "f", "(", ")", ";">>, Def \o <<" ", "f", "(", "a", ")">>,
    Def \o <<" ", "f", "(", "a", "+", ")", " ", "a", ";">>, Def \o <<" ", "1", ";">>,
    Def \o <<" ", "f", " ", "a", ";">>,
    Extern \o <<" ", "f", "(", "a", ",", "b", ")", ";">>, Extern \o <<" ", "f", ";">>,
    Extern \o <<" ", "(", "a", ")", ";">>, Extern \o <<" ", "f", "(", "a", " ", "1", ")", ";">> }

\* names around the one ParseTopLevelExpr uses
NameTexts ==
  { <<"_", "_", "a", "n", "o", "n", "_", "e", "x", "p", "r", ";">>,
    Def \o <<" ", "_", "_", "a", "n", "o", "n", "_", "e", "x", "p", "r", "(", ")", " ", "1", ";">>,
    Extern \o <<" ", "_", "_", "a", "n", "o", "n", "_", "e", "x", "p", "r", "(", ")", ";">>,
    Def \o <<" ", "a", "n", "o", "n", "(", ")", " ", "1", ";">>,
    Def \o <<" ", "(", ")", " ", "1", ";">>,
    Def \o <<"(", ")", " ", "1", ";">>,
    Extern \o <<" ", "(", ")", ";">>,
    Def \o <<" ", "_", "(", ")", " ", "1", ";">>,
    <<"a", "_", "b", ";">>,
    <<"_", ";">> }

TextOf(t) ==
  CASE t.fam = "chain"    -> ChainText(t.ops) \o <<";">>
    [] t.fam = "paren"    -> Repeat("(", t.n) \o ChainText(t.ops) \o Repeat(")", t.n) \o <<";">>
    [] t.fam = "parenmul" -> Repeat("(", t.n) \o ChainText(t.ops) \o Repeat(")", t.n)
                             \o <<"*", "3", ";">>
    [] t.fam = "noclose"  -> <<"(">> \o ChainText(t.ops) \o <<";">>
    [] t.fam = "call"     -> <<"f", "(">> \o Join(t.items, <<",">>) \o <<")", ";">>
    [] t.fam = "trailing" -> <<"f", "(">> \o Join(t.items, <<",">>) \o <<",", ")", ";">>
    [] t.fam = "proto"    -> (IF t.n = 1 THEN Def ELSE Extern) \o <<" ">> \o t.name \o <<"(">>
                             \o Join(t.items, <<" ">>) \o <<")">>
                             \o (IF t.n = 1 THEN <<" ", "a", "+", "b", ";">> ELSE <<";">>)
    [] t.fam = "recover"  -> t.items[1] \o <<" ">> \o t.items[2]
    [] OTHER              -> t.txt

ChainTests    == {T("chain", o, <<>>, 0, <<>>, <<>>) : o \in Seqs(Ops, MaxOps)}
ParenTests    == {T(f, o, <<>>, n, <<>>, <<>>) :
                    f \in {"paren", "parenmul"}, o \in Seqs(Ops, MaxOps), n \in 1..2}
NoCloseTests  == {T("noclose", o, <<>>, 0, <<>>, <<>>) : o \in Seqs(Ops, MaxOps)}
CallTests     == {T("call", <<>>, a, 0, <<>>, <<>>) : a \in Seqs(ArgItems, MaxArgs)}
TrailingTests == {T("trailing", <<>>, a, 0, <<>>, <<>>) : a \in Seqs(ArgItems, MaxArgs) \ {<<>>}}
ProtoTests    == {T("proto", <<>>, a, n, f, <<>>) :
                    a \in Seqs(ParamItems, MaxParams), n \in 1..2, f \in FnNames}
RecoverTests  == {T("recover", <<>>, <<j, w>>, 0, <<>>, <<>>) : j \in Junk, w \in WellFormed}
TextTests(S)  == {T("text", <<>>, <<>>, 0, <<>>, x) : x \in S}
LexTests      == TextTests(Seqs(LexAlphabet, MaxLexLen))

\* the state after construction, standard input holding the text of one of Tests
InitWith(Tests, at) ==
  /\ ver \in {"main", "jit"}
  /\ charSigned \in BOOLEAN
  /\ test \in Tests
  /\ input = TextOf(test)
  /\ cin = Start(input).cin
  /\ cinState = Start(input).cinState
  /\ Buf = Start(input).Buf
  /\ Index = Start(input).Index
  /\ LastChar = Start(input).LastChar
  /\ IdentifierStr = Start(input).IdentifierStr
  /\ NumVal = Start(input).NumVal
  /\ CurTok = Start(input).CurTok
  /\ BinopPrecedence = Start(input).BinopPrecedence
  /\ pc = at
  /\ handler = "none"
  /\ ret = Pending
  /\ errs = <<>>
  /\ ntok = 0
  /\ iter = 0
  /\ toks = <<>>

Init == InitWith(ChainTests \cup ParenTests \cup NoCloseTests \cup CallTests
                 \cup TrailingTests \cup ProtoTests \cup RecoverTests
                 \cup TextTests(Examples \cup ParenExamples \cup NameTexts \cup OperatorTexts
                           \cup BrokenTexts),
                 "main")

Spec == Init /\ [][Next]_vars

\* the driver on the examples alone; the program is one thread that runs whenever it
\* can take a step
InitExamples == InitWith(RecoverTests \cup TextTests(Examples), "main")
FairSpec == InitExamples /\ [][Next]_vars /\ WF_vars(Next)

\* the lexer run alone
InitLex == InitWith(LexTests, "lexer")
SpecLex == InitLex /\ [][NextLex]_vars

(***************************************************************************)
(* What the claims speak of.                                               *)
(***************************************************************************)
\* the node of the i-th primary of a chain
PrimAST(c) ==
  IF isdigit(c) THEN NumberExprAST([int |-> DigitVal(c), frac |-> <<>>])
  ELSE VariableExprAST(<<c>>)

\* the table of the specification
RefPrec(op) == CASE op = "<" -> 10 [] op = "+" -> 20 [] op = "-" -> 20 [] op = "*" -> 40

\* the operator a reference precedence parser puts at the root of the primaries
\* lo..hi of a chain: the rightmost one of the lowest precedence
SplitAt(ops, lo, hi) ==
  CHOOSE k \in lo..(hi - 1) :
    \A j \in lo..(hi - 1) :
      \/ RefPrec(ops[k]) < RefPrec(ops[j])
      \/ RefPrec(ops[k]) = RefPrec(ops[j]) /\ j <= k

RECURSIVE RefTree(_, _, _)
RefSplit(ops, lo, hi, k) ==
  BinaryExprAST(ops[k], RefTree(ops, lo, k), RefTree(ops, k + 1, hi))

RefTree(ops, lo, hi) ==
  IF lo = hi THEN PrimAST(PrimChars[lo])
  ELSE RefSplit(ops, lo, hi, SplitAt(ops, lo, hi))

\* the node of an argument of the call tests
ArgAST(item) ==
  CASE item = <<"1">> -> NumberExprAST([int |-> 1, frac |-> <<>>])
    [] item = <<"a">> -> VariableExprAST(<<"a">>)
    [] item = <<"b", "+", "2">> ->
         BinaryExprAST("+", VariableExprAST(<<"b">>),
                       NumberExprAST([int |-> 2, frac |-> <<>>]))

\* the first MainLoop iteration has just run on a test of the family
FirstOf(fam) == test.fam = fam /\ iter = 1

\* C1: for every chain of primaries joined by <, +, -, * the parser returns the tree
\* of a reference precedence parser: higher precedence binds tighter, equal
\* precedence associates to the left (a+b*c+d is (a+(b*c))+d)
C1_ReferenceTree ==
  FirstOf("chain") =>
    /\ ret.kind = "Function"
    /\ ret.Body = RefTree(test.ops, 1, Len(test.ops) + 1)

\* C2: f() yields a Call with no arguments and f(e1,...,en) a Call with exactly the
\* n parsed arguments in source order; a well-formed list of two or more arguments
\* does not fail
C2_CallArguments ==
  FirstOf("call") =>
    /\ ret.kind = "Function"
    /\ ret.Body = CallExprAST(<<"f">>, [i \in 1..Len(test.items) |-> ArgAST(test.items[i])])

IsIdentifierItem(item) == Len(item) = 1 /\ isalpha(item[1])

AllIdentifiers(items) == \A i \in 1..Len(items) : IsIdentifierItem(items[i])

\* the first of the items between the parentheses that is no identifier
FirstOther(items) ==
  CHOOSE i \in 1..Len(items) :
    /\ ~ IsIdentifierItem(items[i])
    /\ \A j \in 1..(i - 1) : IsIdentifierItem(items[j])

TokenOfItem(item) ==
  IF IsIdentifierItem(item) THEN "tok_identifier"
  ELSE IF isdigit(item[1]) THEN "tok_number"
  ELSE item[1]

ProtoOf(t) == PrototypeAST(t.name, [i \in 1..Len(t.items) |-> t.items[i]])

BodyAPlusB == BinaryExprAST("+", VariableExprAST(<<"a">>), VariableExprAST(<<"b">>))

ExternSinX == Extern \o <<" ", "s", "i", "n", "(", "x", ")", ";">>

\* C3: a name, '(', identifiers separated by whitespace only and ')' give the
\* Prototype with those parameter names in order (def: the Function of it and the
\* body, extern: the bare Prototype); a token after the parameters that is neither
\* an identifier nor ')' (a comma, a number) fails with "expected ')'" on that token
C3_Prototype ==
  /\ FirstOf("proto") =>
       IF AllIdentifiers(test.items)
       THEN /\ ret = IF test.n = 1 THEN FunctionAST(ProtoOf(test), BodyAPlusB)
                     ELSE ProtoOf(test)
            /\ errs = <<>>
       ELSE /\ ret = NULL
            /\ errs = <<[msg |-> "expected ')'",
                         at  |-> TokenOfItem(test.items[FirstOther(test.items)])]>>
  /\ (input = ExternSinX /\ iter = 1) =>
       ret = PrototypeAST(<<"s", "i", "n">>, << <<"x">> >>)

\* def foo(a b) a+b has been parsed
C3_Witness ==
  /\ FirstOf("proto")
  /\ test.n = 1
  /\ test.items = << <<"a">>, <<"b">> >>
  /\ test.name = <<"f", "o", "o">>
  /\ handler = "HandleDefinition"
  /\ ret.kind = "Function"

(***************************************************************************)
(* The lexer's claims, on the lexer run alone.  MaxToks is more than the   *)
(* tokens an input of MaxLexLen characters holds, so a run that has filled *)
(* toks has read the whole input.                                          *)
(***************************************************************************)
\* the tokens read before std::cin failed: those of the input itself
FirstPassOf(ts) == SelectSeq(ts, LAMBDA x : x.first)

RECURSIVE FirstPassFrom(_, _)
FirstPassNext(t, n) ==
  IF t.hang \/ t.cinState = "fail" THEN <<>>
  ELSE IF t.CurTok = "tok_eof" THEN <<TokenOf(t)>>
  ELSE <<TokenOf(t)>> \o FirstPassFrom(t, n - 1)

\* the tokens successive getNextToken calls return from the state s on, up to n
FirstPassFrom(s, n) ==
  IF n = 0 THEN <<>>
  ELSE ByValue(LAMBDA t : FirstPassNext(t, n), getNextToken(s))

LexFirstPass(text) == FirstPassFrom(Start(text), MaxToks)

RECURSIVE SkipSpaces(_)
SkipSpaces(str) ==
  IF Len(str) > 0 /\ isspace(str[1]) THEN SkipSpaces(Tail(str)) ELSE str

\* the text with every run of whitespace replaced by a single space
RECURSIVE Squeeze(_)
Squeeze(str) ==
  IF Len(str) = 0 THEN <<>>
  ELSE IF isspace(str[1]) THEN <<" ">> \o Squeeze(SkipSpaces(str))
  ELSE <<str[1]>> \o Squeeze(Tail(str))

\* the lexer has read the whole input
LexDone ==
  \/ pc # "lexer"
  \/ Len(toks) = MaxToks
  \/ Len(toks) > 0 /\ ~ toks[Len(toks)].first

\* C4: gettok returns no token for a whitespace character; the tokens of an input
\* (one without comments) are those of the input with every run of whitespace
\* replaced by a single space: a newline after a token produces no token
C4_WhitespaceSkipped ==
  /\ \A i \in 1..Len(toks) : ~ isspace(toks[i].tok)
  /\ (LexDone /\ ~ Contains(input, "#")) =>
       FirstPassOf(toks) = LexFirstPass(Squeeze(input))

\* C5: a comment produces no token: the tokens of '#' text newline rest are those
\* of rest alone, and a comment that runs to the end of the stream is followed by
\* the end-of-input token only (the byte 0xFF left aside)
C5_CommentElided ==
  (LexDone /\ Len(input) > 0 /\ input[1] = "#" /\ ~ Contains(input, "0xFF")) =>
     IF Contains(input, "\n")
     THEN FirstPassOf(toks)
            = LexFirstPass(SubSeq(input, FirstNewline(input, 1) + 1, Len(input)))
     ELSE Len(toks) = 1 /\ toks[1].tok = "tok_eof"

(***************************************************************************)
(* The driver's claims.                                                    *)
(***************************************************************************)
DefFooOpen == Def \o <<" ", "f", "o", "o", "(">>

\* C6: for every finite input the driver terminates: MainLoop returns; def foo(
\* followed by the end of the stream is answered with "expected ')'"
C6_Terminates ==
  /\ <>(pc = "returned")
  /\ []((input = DefFooOpen /\ iter = 1) =>
          (Len(errs) = 1 /\ errs[1].msg = "expected ')'"))

\* the first token of a text
FirstToken(text) == getNextToken(Start(text)).CurTok

\* C7: a handler whose parse function returns no result discards one token and
\* returns to MainLoop, which dispatches on the token after it; the session ends
\* on the end-of-input token only, and the well-formed construct that starts at
\* the token after the discarded one is parsed successfully
C7_Recovery ==
  /\ FirstOf("recover") =>
       /\ ret = NULL
       /\ Len(errs) = 1
       /\ pc = "MainLoop"
       /\ CurTok = FirstToken(test.items[2])
  /\ (test.fam = "recover" /\ iter = 2) =>
       ret.kind \in {"Function", "Prototype"}
  /\ pc = "returned" => CurTok = "tok_eof"

StandaloneTree(ops) ==
  ByValue(ParseTopLevelExpr,
          getNextToken([Start(ChainText(ops) \o <<";">>)
                          EXCEPT !.BinopPrecedence = InstalledPrecedence])).r

OnePlusTwoTimesThree ==
  BinaryExprAST("*",
                BinaryExprAST("+", NumberExprAST([int |-> 1, frac |-> <<>>]),
                              NumberExprAST([int |-> 2, frac |-> <<>>])),
                NumberExprAST([int |-> 3, frac |-> <<>>]))

\* C9: (e) and ((e)) give the tree e gives when it stands alone; (e)*3 and ((e))*3
\* give BinaryOp('*', tree of e, 3), so (1+2)*3 and ((1+2))*3 give
\* BinaryOp('*', BinaryOp('+',1,2), 3); (e without its ')' fails with "expected ')'"
C9_Parentheses ==
  /\ FirstOf("paren") =>
       /\ ret.kind = "Function"
       /\ ret = StandaloneTree(test.ops)
  /\ FirstOf("parenmul") =>
       /\ ret.kind = "Function"
       /\ StandaloneTree(test.ops).kind = "Function"
       /\ ret.Body = BinaryExprAST("*", StandaloneTree(test.ops).Body,
                                   NumberExprAST([int |-> 3, frac |-> <<>>]))
  /\ (input \in ParenExamples /\ iter = 1) =>
       /\ ret.kind = "Function"
       /\ ret.Body = OnePlusTwoTimesThree
  /\ FirstOf("noclose") =>
       /\ ret = NULL
       /\ errs = << [msg |-> "expected ')'", at |-> ";"] >>

\* ((a+2*c)) has been parsed
C9_Witness ==
  /\ FirstOf("paren")
  /\ test.n = 2
  /\ test.ops = <<"+", "*">>
  /\ handler = "HandleTopLevelExpression"
  /\ ret.kind = "Function"
  /\ ret.Body.kind = "Binary"

\* C10: the Function ParseTopLevelExpr returns has a Prototype with no parameters
\* and the reserved name; gettok never returns tok_identifier with that name in
\* IdentifierStr, and no def or extern yields a Prototype of that name
C10_ReservedName ==
  /\ (handler = "HandleTopLevelExpression" /\ ret.kind = "Function") =>
       ret.Proto = PrototypeAST(AnonName, <<>>)
  /\ CurTok = "tok_identifier" => IdentifierStr # AnonName
  /\ (handler \in {"HandleDefinition", "HandleExtern"} /\ ret.kind = "Prototype") =>
       ret.Name # AnonName
  /\ (handler = "HandleDefinition" /\ ret.kind = "Function") =>
       ret.Proto.Name # AnonName

\* part_000 has parsed the a of a_b as a top-level expression
C10_Witness ==
  /\ test.txt = <<"a", "_", "b", ";">>
  /\ ver = "jit"
  /\ handler = "HandleTopLevelExpression"
  /\ ret.kind = "Function"
  /\ ret.Proto.Name = AnonName
  /\ CurTok = "_"

\* the operators of the BinaryOp nodes of a tree
RECURSIVE OperatorsOf(_)
OperatorsOf(node) ==
  CASE node.kind = "Binary" ->
         {node.Op} \cup OperatorsOf(node.LHS) \cup OperatorsOf(node.RHS)
    [] node.kind = "Call" ->
         UNION {OperatorsOf(node.Args[i]) : i \in 1..Len(node.Args)}
    [] node.kind = "Function" -> OperatorsOf(node.Body)
    [] OTHER -> {}

\* the table has no positive entry for the token
NoOperator(tok) ==
  \/ ~ isascii(tok)
  \/ tok \notin DOMAIN BinopPrecedence
  \/ BinopPrecedence[tok] <= 0

\* C11: every BinaryOp node of a tree the parser returns has one of '<', '+', '-',
\* '*' as its operator, a token with a positive entry in BinopPrecedence;
\* GetTokPrecedence returns -1 for a token that is not ASCII and for a character
\* that is absent from the table or mapped to a value <= 0, and the entry otherwise
C11_OperatorsOfTable ==
  /\ \A op \in OperatorsOf(ret) :
       /\ op \in {"<", "+", "-", "*"}
       /\ ~ NoOperator(op)
  /\ NoOperator(CurTok) => GetTokPrecedence(Cur).r = -1
  /\ CurTok \notin {"<", "+", "-", "*"} => GetTokPrecedence(Cur).r = -1
  /\ (pc # "main" /\ CurTok \in {"<", "+", "-", "*"}) =>
       GetTokPrecedence(Cur).r = RefPrec(CurTok)

\* a+b*c has been parsed up to a '/', which the recursive call of ParseBinOpRHS has
\* looked up and left in the table with the value 0
C11_Witness ==
  /\ test.txt = <<"a", "+", "b", "*", "c", "/", "d", ";">>
  /\ iter = 1
  /\ ret.kind = "Function"
  /\ OperatorsOf(ret) = {"+", "*"}
  /\ CurTok = "/"
  /\ "/" \in DOMAIN BinopPrecedence
  /\ BinopPrecedence["/"] = 0

\* what the last nested parse function that ParseExpression calls returned: that of
\* ParsePrimary when it is no result, that of ParseBinOpRHS otherwise
NestedBinOpRHS(LHS) == IF LHS.r = NULL THEN LHS ELSE ParseBinOpRHS(0, LHS.r, LHS.s)
NestedInExpression(s) == ByValue(NestedBinOpRHS, ParsePrimary(s))

\* the same for ParseDefinition and ParseExtern, where ParsePrototype comes first
NestedBody(Proto) == IF Proto.r = NULL THEN Proto ELSE NestedInExpression(Proto.s)
NestedInDefinition(s) == ByValue(NestedBody, ByValue(ParsePrototype, getNextToken(s)))
NestedInExtern(s) == ByValue(ParsePrototype, getNextToken(s))

\* for the construct MainLoop dispatches on CurTok
Nested(s) ==
  CASE s.CurTok = "tok_def"    -> NestedInDefinition(s)
    [] s.CurTok = "tok_extern" -> NestedInExtern(s)
    [] OTHER                   -> NestedInExpression(s)

Enclosing(s) ==
  CASE s.CurTok = "tok_def"    -> ParseDefinition(s)
    [] s.CurTok = "tok_extern" -> ParseExtern(s)
    [] OTHER                   -> ParseTopLevelExpr(s)

\* a nested function returned no result in F: the enclosing one returned O, no
\* result in the machine state the nested one left, where the one message of the
\* step was printed at the token that is still current, and the handler has ended
\* its step with no node and one more token, its discard
Propagated(F, O) ==
  (F.r = NULL /\ ~ F.s.hang) =>
    /\ O.r = NULL
    /\ O.s = F.s
    /\ Len(O.s.errs) = 1
    /\ O.s.errs[1].at = O.s.CurTok
    /\ pc' = "MainLoop" =>
         /\ ret' = NULL
         /\ errs' = F.s.errs
         /\ ntok' = F.s.ntok + 1

Dispatched == pc = "MainLoop" /\ CurTok \notin {"tok_eof", ";"}

\* C12: in every step of MainLoop that dispatches a construct, when a nested parse
\* function (ParsePrimary with ParseParenExpr and ParseIdentifierExpr, ParseBinOpRHS,
\* ParsePrototype) returns no result, the enclosing ParseExpression, ParseDefinition,
\* ParseExtern or ParseTopLevelExpr returns no result in the same machine state, no
\* token consumed after the message, and no node is returned: a def whose prototype
\* parsed and whose body failed yields no Function
C12_FailurePropagates ==
  [][Dispatched =>
       \E s \in {Cur} : Propagated(ByValue(Nested, s), ByValue(Enclosing, s))]_vars

\* def f(a) a+) 1; has been handled: the prototype parsed, ParsePrimary failed on
\* the ')' inside ParseBinOpRHS, and the handler discarded the ')'
C12_Witness ==
  /\ test.txt = Def \o <<" ", "f", "(", "a", ")", " ", "a", "+", ")", " ", "1", ";">>
  /\ iter = 1
  /\ pc = "MainLoop"
  /\ handler = "HandleDefinition"
  /\ ret = NULL
  /\ errs = << [msg |-> "unknown token", at |-> ")"] >>
  /\ CurTok = "tok_number"

\* MainLoop has begun an iteration on a token that is not tok_eof: the step of a
\* handler or of the ';' case, returned to MainLoop or inside a gettok call
IterationBegun ==
  handler \in {";", "HandleDefinition", "HandleExtern", "HandleTopLevelExpression"}

\* C13: every iteration of MainLoop whose current token is not tok_eof consumes at
\* least one token from the lexer, whether its construct parses or fails: at least
\* one getNextToken call of the iteration has returned a token, so that the driver
\* does not stay on the same token
C13_TokenConsumed == IterationBegun => ntok >= 1
====
